---------------------------- MODULE Spec2Model ----------------------------
(***************************************************************************)
(* Model of src/data_generator.py: the payment-transaction generator.      *)
(*                                                                         *)
(* The script is one straight-line batch run.  The model keeps one program *)
(* counter, one variable per array the script keeps, and one action per    *)
(* generator call (together with the deterministic statements that follow  *)
(* it up to the next generator call).  The two Python loops (amounts,      *)
(* recovery) take one step per iteration.                                  *)
(*                                                                         *)
(* The batch.  The script generates N = 1_000_000 rows.  The model follows *)
(* the first rows of the batch, 1..followed, through every statement.  The *)
(* rows after them are drawn from the same tables; the only statement in   *)
(* which a row depends on the other rows is the min-max normalization      *)
(* (risk_min, risk_max), so the rest of the batch is present through the   *)
(* two rows that hold its least and its largest raw_risk.                  *)
(*                                                                         *)
(* Numbers.  Floats are modelled in fixed point:                           *)
(*   - scores and probabilities: units of 1/Fine (eight decimals);         *)
(*   - uniform draws, noise, recovery rates, the written score: units of   *)
(*     1/Scale (four decimals, the resolution the score is written with);  *)
(*   - amounts: mills (1/1000 USD); after rounding, multiples of 10 mills; *)
(*   - raw_risk: millionths (fail_base, fail_mult are given in hundredths, *)
(*     so their triple product is exact in millionths).                    *)
(* Where the result of the script depends on bits of a double below the    *)
(* model's resolution, the model takes every outcome the doubles can give: *)
(*   - a value exactly half way between two neighbours rounds to either    *)
(*     (np.round of the amounts and of the score);                         *)
(*   - a failure probability is known to within ProbTolerance units of     *)
(*     1/Fine, and a comparison with it closer than that goes either way.  *)
(* NaN is a value of its own; every float operation propagates it as IEEE  *)
(* arithmetic does (comparisons with NaN are false, clip keeps NaN).       *)
(* Rows are numbered 1.. here and 0.. in the script.                       *)
(***************************************************************************)
EXTENDS Integers, Sequences, FiniteSets, TLC

VARIABLES
    pc,                   \* the statement group the run is at
    followed,             \* number of rows of the batch the model follows
    merchant_cats,        \* row -> category label
    geos,                 \* row -> geography label
    pay_methods,          \* row -> payment method label
    amounts,              \* sequence of amounts (mills), grows in the loop
    raw_seconds,          \* row -> offset in seconds from start_ts
    raw_risk,             \* row -> raw_risk (millionths)
    risk_min,             \* least raw_risk of the batch (millionths)
    risk_max,             \* largest raw_risk of the batch (millionths)
    pre_auth_risk_score,  \* row -> score (1/Fine) or NaN
    fail_probs,           \* row -> failure probability (1/Fine) or NaN
    is_failed,            \* row -> BOOLEAN
    failure_codes,        \* row -> code label
    retryable_mask,       \* position in failed_idx -> BOOLEAN
    is_retryable,         \* row -> BOOLEAN
    retry_recovered,      \* row -> BOOLEAN
    rec_pos,              \* iterations of the recovery loop done so far
    recovery_rows,        \* rows for which a recovery draw was made
    is_recoverable,       \* row -> BOOLEAN
    merchant_ids,         \* row -> merchant number
    draws,                \* the generator calls made so far, in order
    df,                   \* the assembled table (row -> record)
    written               \* TRUE once data/transactions.csv is written

vars == << pc, followed, merchant_cats, geos, pay_methods, amounts, raw_seconds,
           raw_risk, risk_min, risk_max,
                    pre_auth_risk_score, fail_probs, is_failed, failure_codes,
           retryable_mask, is_retryable, retry_recovered, rec_pos,
           recovery_rows, is_recoverable, merchant_ids, draws, df, written >>

---------------------------------------------------------------------------
(* Bounds of the model *)

(* The number of rows of the batch the model follows is at most MaxRows.   *)
MaxRows == 2

(* The accuracy of a modelled failure probability, in units of 1/Fine.     *)
ProbTolerance == 5

(* Fixed-point unit of the written score: 10^4, the four decimals of       *)
(* np.round(pre_auth_risk_score, 4).                                       *)
Scale == 10000

(* Fixed-point unit of the scores and probabilities the script computes    *)
(* with: 10^8.                                                             *)
Fine == Scale * Scale

NaN == 0 - 2 * Fine

(* The batch size *)
N == 1000000

(* least and largest member of a set of numbers *)
MinOver(S) == CHOOSE v \in S : \A w \in S : v <= w

MaxOver(S) == CHOOSE v \in S : \A w \in S : v >= w

---------------------------------------------------------------------------
(* 1. Dimension tables (weights and multipliers in hundredths) *)

MERCHANT_CATEGORIES ==
    << [key |-> "E-commerce",        weight |-> 28, avg_amount |-> 85,  fail_base |-> 9],
       [key |-> "SaaS/Subscription", weight |-> 18, avg_amount |-> 55,  fail_base |-> 6],
       [key |-> "Travel",            weight |-> 12, avg_amount |-> 420, fail_base |-> 13],
       [key |-> "Retail",            weight |-> 14, avg_amount |-> 65,  fail_base |-> 7],
       [key |-> "Marketplaces",      weight |-> 10, avg_amount |-> 140, fail_base |-> 11],
       [key |-> "Gaming",            weight |-> 8,  avg_amount |-> 25,  fail_base |-> 10],
       [key |-> "Healthcare",        weight |-> 6,  avg_amount |-> 310, fail_base |-> 5],
       [key |-> "Food & Delivery",   weight |-> 4,  avg_amount |-> 38,  fail_base |-> 8] >>

GEOGRAPHIES ==
    << [key |-> "US", weight |-> 42, fail_mult |-> 100, currency |-> "USD"],
       [key |-> "EU", weight |-> 20, fail_mult |-> 90,  currency |-> "EUR"],
       [key |-> "UK", weight |-> 10, fail_mult |-> 92,  currency |-> "GBP"],
       [key |-> "IN", weight |-> 8,  fail_mult |-> 135, currency |-> "INR"],
       [key |-> "BR", weight |-> 6,  fail_mult |-> 145, currency |-> "BRL"],
       [key |-> "SG", weight |-> 5,  fail_mult |-> 85,  currency |-> "SGD"],
       [key |-> "CA", weight |-> 5,  fail_mult |-> 95,  currency |-> "CAD"],
       [key |-> "AU", weight |-> 4,  fail_mult |-> 88,  currency |-> "AUD"] >>

PAYMENT_METHODS ==
    << [key |-> "Credit Card",    weight |-> 38, fail_mult |-> 90],
       [key |-> "Debit Card",     weight |-> 25, fail_mult |-> 110],
       [key |-> "Digital Wallet", weight |-> 18, fail_mult |-> 75],
       [key |-> "Bank Transfer",  weight |-> 10, fail_mult |-> 120],
       [key |-> "BNPL",           weight |-> 9,  fail_mult |-> 140] >>

(* Failure codes: label, is_retryable, and the length of the label (the    *)
(* codes are stored in a "<U30" array, which keeps at most 30 characters). *)
FAILURE_CODES ==
    << [code |-> "insufficient_funds",     retryable |-> TRUE,  len |-> 18],
       [code |-> "card_expired",           retryable |-> FALSE, len |-> 12],
       [code |-> "do_not_honor",           retryable |-> TRUE,  len |-> 12],
       [code |-> "incorrect_cvc",          retryable |-> FALSE, len |-> 13],
       [code |-> "lost_card",              retryable |-> FALSE, len |-> 9],
       [code |-> "stolen_card",            retryable |-> FALSE, len |-> 11],
       [code |-> "processing_error",       retryable |-> TRUE,  len |-> 16],
       [code |-> "network_timeout",        retryable |-> TRUE,  len |-> 15],
       [code |-> "velocity_exceeded",      retryable |-> TRUE,  len |-> 17],
       [code |-> "fraud_suspected",        retryable |-> FALSE, len |-> 15],
       [code |-> "currency_not_supported", retryable |-> FALSE, len |-> 22],
       [code |-> "amount_too_large",       retryable |-> FALSE, len |-> 16] >>

(* The row of a table with the given key (dict lookup; a missing key is a  *)
(* KeyError in the script and an evaluation error here).                   *)
Lookup(table, k) == table[CHOOSE j \in DOMAIN table : table[j].key = k]

CodeEntry(c) == FAILURE_CODES[CHOOSE j \in DOMAIN FAILURE_CODES : FAILURE_CODES[j].code = c]

CodeLabels == { FAILURE_CODES[j].code : j \in DOMAIN FAILURE_CODES }

RETRY_CODES_AllCodes == FAILURE_CODES

RETRY_CODES == SelectSeq(FAILURE_CODES, LAMBDA e : e.retryable)

NON_RETRY_CODES == SelectSeq(FAILURE_CODES, LAMBDA e : ~e.retryable)

(* Retry success rate by code, in 1/Scale; codes not listed: see RecoveryRate *)
RETRY_RECOVERY ==
    << [code |-> "insufficient_funds", rate |-> 4500],
       [code |-> "do_not_honor",       rate |-> 6000],
       [code |-> "processing_error",   rate |-> 8200],
       [code |-> "network_timeout",    rate |-> 8800],
       [code |-> "velocity_exceeded",  rate |-> 5500] >>

(* RETRY_RECOVERY.get(code, 0.50) *)
RecoveryRate(c) ==
    IF \E j \in DOMAIN RETRY_RECOVERY : RETRY_RECOVERY[j].code = c
    THEN RETRY_RECOVERY[CHOOSE j \in DOMAIN RETRY_RECOVERY : RETRY_RECOVERY[j].code = c].rate
    ELSE 5000

(* rng.choice(keys, p=weights): the keys that have a positive weight *)
Choosable(table) == { table[j].key : j \in { k \in DOMAIN table : table[k].weight > 0 } }

---------------------------------------------------------------------------
(* Float helpers *)

RoundDiv(a, b) == (2 * a + b) \div (2 * b)

Abs(x) == IF x < 0 THEN 0 - x ELSE x

FAdd(a, b) == IF a = NaN \/ b = NaN THEN NaN ELSE a + b

(* a < b on floats: FALSE when either side is NaN *)
FLt(a, b) == a # NaN /\ b # NaN /\ a < b

(* u < p where the double p lies less than ProbTolerance units from the    *)
(* modelled p: the values the comparison can have                          *)
FLtWithin(u, p) ==
    IF p = NaN THEN { FALSE }
    ELSE IF u + ProbTolerance <= p THEN { TRUE }
    ELSE IF u >= p + ProbTolerance THEN { FALSE }
    ELSE BOOLEAN

(* np.clip(x, lo, hi): NaN stays NaN *)
FClip(x, lo, hi) == IF x = NaN THEN NaN ELSE IF x < lo THEN lo ELSE IF x > hi THEN hi ELSE x

(* The one member of a set of one member.  { F(x) : x \in { e } } is F of   *)
(* the value of e, with e evaluated once.                                  *)
The(S) == CHOOSE v \in S : TRUE

(* a * b for 0 <= a, b <= 1 in 1/Fine, to the nearest unit; the product is *)
(* taken in halves of four digits so that no intermediate value exceeds    *)
(* the integers of the model.                                              *)
MulFine(a, b) ==
    The({ LET a1  == x \div Scale
              a0  == x % Scale
              b1  == y \div Scale
              b0  == y % Scale
              mid == a1 * b0 + a0 * b1
              low == (mid % Scale) * Scale + a0 * b0
          IN  a1 * b1 + mid \div Scale + (low + Fine \div 2) \div Fine :
          x \in { a }, y \in { b } })

(* k more decimal digits of a quotient by long division: << q, r >> *)
RECURSIVE LongDiv(_, _, _, _)
LongDiv(q, r, b, k) ==
    IF k = 0 THEN << q, r >>
    ELSE The({ LongDiv(q1, r1, b, k - 1) :
                 q1 \in { q * 10 + (r * 10) \div b }, r1 \in { (r * 10) % b } })

(* a / b in 1/Fine, rounded down, with the remainder: << q, r >> *)
DivFloor(a, b) ==
    The({ LongDiv(x \div y, x % y, y, 8) : x \in { a }, y \in { b } })

(* a / b in 1/Fine, to the nearest unit *)
DivNear(a, b) ==
    The({ d[1] + (IF 2 * d[2] >= b THEN 1 ELSE 0) : d \in { DivFloor(a, b) } })

(* num / den as a float in 1/Fine, rounded down; 0/0 is NaN (numpy warns   *)
(* and goes on).  0 <= num <= den here.                                    *)
FDiv(num, den) == IF den = 0 THEN NaN ELSE DivFloor(num, den)[1]

(* num / den is a whole number of 1/Fine *)
FDivExact(num, den) == den # 0 /\ DivFloor(num, den)[2] = 0

---------------------------------------------------------------------------
(* 3. Amounts *)

(* max(1.0, x), x in mills *)
FloorAtOne(x) == IF x < 1000 THEN 1000 ELSE x

(* np.round(x, 2) on mills: to the nearest cent.  A value half way between *)
(* two cents is not a double; the double lies on either side of it, and    *)
(* the result is either cent.                                              *)
Round2(x) ==
    LET c == x \div 10
        r == x % 10
    IN  IF r > 5 THEN { (c + 1) * 10 }
        ELSE IF r < 5 THEN { c * 10 }
        ELSE { c * 10, (c + 1) * 10 }

---------------------------------------------------------------------------
(* 4. Timestamps *)

(* Days since 1970-01-01 of a civil date (proleptic Gregorian calendar),   *)
(* what pd.Timestamp("yyyy-mm-dd") denotes.                                *)
DaysFromCivil(y, m, d) ==
    LET yy  == IF m <= 2 THEN y - 1 ELSE y
        era == yy \div 400
        yoe == yy - era * 400
        mp  == IF m > 2 THEN m - 3 ELSE m + 9
        doy == (153 * mp + 2) \div 5 + d - 1
        doe == yoe * 365 + yoe \div 4 - yoe \div 100 + doy
    IN  era * 146097 + doe - 719468

(* The civil date of a day number: <<year, month, day>> *)
CivilFromDays(z) ==
    LET zz  == z + 719468
        era == zz \div 146097
        doe == zz - era * 146097
        yoe == (doe - doe \div 1460 + doe \div 36524 - doe \div 146096) \div 365
        doy == doe - (365 * yoe + yoe \div 4 - yoe \div 100)
        mp  == (5 * doy + 2) \div 153
        d   == doy - (153 * mp + 2) \div 5 + 1
        m   == IF mp < 10 THEN mp + 3 ELSE mp - 9
        y   == yoe + era * 400 + (IF m <= 2 THEN 1 ELSE 0)
    IN  << y, m, d >>

start_ts == DaysFromCivil(2023, 7, 1)
end_ts   == DaysFromCivil(2024, 12, 31)

total_seconds == (end_ts - start_ts) * 86400

(* rng.integers(low, high): the half-open range low .. high-1 *)
InIntegersRange(s, low, high) == low <= s /\ s < high

(* pd.to_datetime(s, unit="s", origin=start_ts) and its calendar fields *)
DayOf(s)        == start_ts + s \div 86400
DateOf(s)       == CivilFromDays(DayOf(s))
HourOf(s)       == (s % 86400) \div 3600
DayOfWeekOf(s)  == (DayOf(s) + 3) % 7

---------------------------------------------------------------------------
(* 5. Risk score and sigmoid failure model *)

(* np.clip((amount - 50) / 1000, 0, 0.12) of an amount in mills, millionths *)
amount_risk(amount) == FClip(amount - 50000, 0, 120000)

(* mc_base * geo_mult * pm_mult + amount_risk of a row with the given      *)
(* category, geography, method and amount, in millionths                   *)
RawRiskValue(cat, geo, pm, amount) ==
    Lookup(MERCHANT_CATEGORIES, cat).fail_base
      * Lookup(GEOGRAPHIES, geo).fail_mult
      * Lookup(PAYMENT_METHODS, pm).fail_mult
    + amount_risk(amount)

(* The rows of the batch after the followed ones that hold the least and   *)
(* the largest raw_risk among them: << lo, hi >>.  They are rows as the    *)
(* script generates them (labels of positive weight, an amount of whole    *)
(* cents not below 1.00).  The N - followed rows of the rest are not all   *)
(* alike: lo and hi differ in raw_risk.                                    *)
RestRow(r) ==
    /\ r.cat \in Choosable(MERCHANT_CATEGORIES)
    /\ r.geo \in Choosable(GEOGRAPHIES)
    /\ r.pm \in Choosable(PAYMENT_METHODS)
    /\ r.amount >= 1000
    /\ r.amount % 10 = 0

RestExtremes(rows) ==
    { e \in { r \in rows : RestRow(r) } \X { r \in rows : RestRow(r) } :
        /\ N - followed >= 2
        /\ RawRiskValue(e[1].cat, e[1].geo, e[1].pm, e[1].amount)
             < RawRiskValue(e[2].cat, e[2].geo, e[2].pm, e[2].amount) }

(* (raw_risk - risk_min) / (risk_max - risk_min) *)
risk_score_base(i) == FDiv(raw_risk[i] - risk_min, risk_max - risk_min)

(* np.clip(risk_score_base + noise, 0, 1) *)
ClipScore_None(x) == x

ClipScore(x) == FClip(x, 0, Fine)

(* exp(-n) for a whole number n >= 0, in 1/Fine, to the nearest unit *)
ExpNegInt(n) ==
    LET table == << 36787944, 13533528, 4978707, 1831564, 673795, 247875,
                    91188, 33546, 12341, 4540, 1670, 614, 226, 83, 31, 11,
                    4, 2, 1 >>
    IN  IF n = 0 THEN Fine ELSE IF n > Len(table) THEN 0 ELSE table[n]

(* exp(-f) for 0 <= f < 1 (f in 1/Fine): the Taylor series in Horner form, *)
(* 1 - f/1 * (1 - f/2 * (1 - f/3 * ...))                                   *)
RECURSIVE ExpNegFrac(_, _)
ExpNegFrac(f, k) ==
    IF k > 14 THEN Fine
    ELSE Fine - RoundDiv(MulFine(f, ExpNegFrac(f, k + 1)), k)

(* exp(-(whole + frac)), frac and the result in 1/Fine *)
ExpNeg(whole, frac) == MulFine(ExpNegInt(whole), ExpNegFrac(frac, 1))

(* sigmoid(x) = 1 / (1 + exp(-x)), the result in 1/Fine; x is given by its *)
(* sign, whole part and fraction (see OverSigma).  For x < 0 the same      *)
(* quotient is taken as exp(x) / (1 + exp(x)).                             *)
sigmoid(x) ==
    IF x.nan THEN NaN
    ELSE The({ IF x.neg THEN DivNear(e, Fine + e) ELSE DivNear(Fine, Fine + e) :
                 e \in { ExpNeg(x.whole, x.frac) } })

THRESHOLD == 45000000

SIGMA == 2500000

(* d / SIGMA for d = score - THRESHOLD: sign, whole part and fraction (the *)
(* fraction in 1/Fine)                                                     *)
OverSigma(d) ==
    [ nan   |-> d = NaN,
      neg   |-> d < 0,
      whole |-> Abs(d) \div SIGMA,
      frac  |-> (Abs(d) % SIGMA) * (Fine \div SIGMA) ]

(* sigmoid(...) * 0.40 + 0.03 *)
ScaleShift_Wide(s) == IF s = NaN THEN NaN ELSE RoundDiv(s * 8, 10) + 10 * (Fine \div 100)

ScaleShift(s) == IF s = NaN THEN NaN ELSE RoundDiv(s * 4, 10) + 3 * (Fine \div 100)

(* The failure probability of a score, both in 1/Fine.  The value is less  *)
(* than one unit from that of the formula at this score; with the score    *)
(* itself rounded down to 1/Fine it is less than ProbTolerance units from  *)
(* the double the script computes.                                         *)
FailProb(score) ==
    The({ FClip(ScaleShift(s), 2 * (Fine \div 100), 90 * (Fine \div 100)) :
            s \in { sigmoid(OverSigma(FAdd(score, 0 - THRESHOLD))) } })

(* np.round(score, 4) of a score in 1/Fine, in 1/Scale.  exact: the score  *)
(* is the stored number; otherwise it lies above it by less than a unit.   *)
(* A score exactly half way between two neighbours rounds to either.       *)
Round4(score, exact) ==
    IF score = NaN THEN { NaN }
    ELSE LET q == score \div Scale
             r == score % Scale
         IN  IF r = Scale \div 2 /\ exact THEN { q, q + 1 }
             ELSE IF r >= Scale \div 2 THEN { q + 1 }
             ELSE { q }

---------------------------------------------------------------------------
(* The order of the script's statement groups, top to bottom *)

Program_NoiseBeforeTimestamps ==
    << "cats", "geos", "pms", "amounts", "risk", "timestamps", "outcomes",
       "mask", "codes", "recovery", "merchants", "assemble", "save", "done" >>

Program ==
    << "cats", "geos", "pms", "amounts", "timestamps", "risk", "outcomes",
       "mask", "codes", "recovery", "merchants", "assemble", "save", "done" >>

StepAfter(s) == Program[(CHOOSE k \in DOMAIN Program : Program[k] = s) + 1]

Rows == 1..followed

(* failed_idx = np.where(is_failed)[0]: the failed rows, ascending *)
failed_idx == SelectSeq([i \in 1..followed |-> i], LAMBDA i : is_failed[i])

n_failed == Len(failed_idx)

(* the position of a failed row in failed_idx *)
PosOf(i) == CHOOSE k \in 1..n_failed : failed_idx[k] = i

(* failed_idx[retryable_mask]: the failed rows whose mask is set, ascending *)
MaskedRows_AllFailed == failed_idx

MaskedRows == SelectSeq(failed_idx, LAMBDA i : retryable_mask[PosOf(i)])

(* astype("<U30") and the later item assignment keep at most 30 characters *)
StoreU30(c, len) == IF len <= 30 THEN c ELSE << "truncated", c >>

---------------------------------------------------------------------------
(* Initial state: the module-level constants are set, nothing is drawn.    *)
(* The model follows the first rows of the batch, at most MaxRows of them, *)
(* and the rest of the batch has at least two rows.                        *)

Init ==
    /\ pc = "cats"
    /\ followed \in { k \in 1..MaxRows : k + 2 <= N }
    /\ merchant_cats = << >>
    /\ geos = << >>
    /\ pay_methods = << >>
    /\ amounts = << >>
    /\ raw_seconds = << >>
    /\ raw_risk = << >>
    /\ risk_min = 0
    /\ risk_max = 0
    /\ pre_auth_risk_score = << >>
    /\ fail_probs = << >>
    /\ is_failed = << >>
    /\ failure_codes = << >>
    /\ retryable_mask = << >>
    /\ is_retryable = << >>
    /\ retry_recovered = << >>
    /\ rec_pos = 0
    /\ recovery_rows = {}
    /\ is_recoverable = << >>
    /\ merchant_ids = << >>
    /\ draws = << >>
    /\ df = << >>
    /\ written = FALSE

---------------------------------------------------------------------------
(* 2. Sample dimensions.  D is the record of the sets the generator's      *)
(* values are taken from in a given specification.                         *)

SampleCats(D) ==
    /\ pc = "cats"
    /\ \E v \in [Rows -> D.cats \cap Choosable(MERCHANT_CATEGORIES)] :
           merchant_cats' = v
    /\ draws' = Append(draws, "dimension")
    /\ pc' = StepAfter("cats")
    /\ UNCHANGED << followed, geos, pay_methods, amounts, raw_seconds,
                    raw_risk, risk_min, risk_max,
                    pre_auth_risk_score, fail_probs, is_failed, failure_codes,
                    retryable_mask, is_retryable, retry_recovered, rec_pos,
                    recovery_rows, is_recoverable, merchant_ids, df, written >>

SampleGeos(D) ==
    /\ pc = "geos"
    /\ \E v \in [Rows -> D.geos \cap Choosable(GEOGRAPHIES)] : geos' = v
    /\ draws' = Append(draws, "dimension")
    /\ pc' = StepAfter("geos")
    /\ UNCHANGED << followed, merchant_cats, pay_methods, amounts, raw_seconds,
                    raw_risk, risk_min, risk_max,
                    pre_auth_risk_score, fail_probs, is_failed, failure_codes,
                    retryable_mask, is_retryable, retry_recovered, rec_pos,
                    recovery_rows, is_recoverable, merchant_ids, df, written >>

SamplePayMethods(D) ==
    /\ pc = "pms"
    /\ \E v \in [Rows -> D.pms \cap Choosable(PAYMENT_METHODS)] : pay_methods' = v
    /\ draws' = Append(draws, "dimension")
    /\ pc' = StepAfter("pms")
    /\ UNCHANGED << followed, merchant_cats, geos, amounts, raw_seconds,
                    raw_risk, risk_min, risk_max,
                    pre_auth_risk_score, fail_probs, is_failed, failure_codes,
                    retryable_mask, is_retryable, retry_recovered, rec_pos,
                    recovery_rows, is_recoverable, merchant_ids, df, written >>

(* 3. One iteration of the amounts comprehension: a log-normal draw (x, in *)
(* mills, any positive value), floored at 1.0.                             *)
DrawAmount(D) ==
    /\ pc = "amounts"
    /\ Len(amounts) < followed
    /\ \E x \in { a \in D.amounts : a > 0 } :
           amounts' = Append(amounts, FloorAtOne(x))
    /\ draws' = Append(draws, "amounts")
    /\ UNCHANGED << pc, followed, merchant_cats, geos, pay_methods, raw_seconds,
                    raw_risk, risk_min, risk_max,
                    pre_auth_risk_score, fail_probs, is_failed, failure_codes,
                    retryable_mask, is_retryable, retry_recovered, rec_pos,
                    recovery_rows, is_recoverable, merchant_ids, df, written >>

(* amounts = np.round(amounts, 2), after the comprehension *)
RoundAmounts ==
    /\ pc = "amounts"
    /\ Len(amounts) = followed
    /\ \E v \in [1..followed -> UNION { Round2(amounts[i]) : i \in 1..followed }] :
          /\ \A i \in 1..followed : v[i] \in Round2(amounts[i])
          /\ amounts' = v
    /\ pc' = StepAfter("amounts")
    /\ UNCHANGED << followed, merchant_cats, geos, pay_methods, raw_seconds,
                    raw_risk, risk_min, risk_max,
                    pre_auth_risk_score, fail_probs, is_failed, failure_codes,
                    retryable_mask, is_retryable, retry_recovered, rec_pos,
                    recovery_rows, is_recoverable, merchant_ids, draws, df, written >>

(* 4. raw_seconds = rng.integers(0, total_seconds, size=N) *)
DrawTimestamps(D) ==
    /\ pc = "timestamps"
    /\ \E v \in [Rows -> { s \in D.seconds : InIntegersRange(s, 0, total_seconds) }] :
           raw_seconds' = v
    /\ draws' = Append(draws, "timestamps")
    /\ pc' = StepAfter("timestamps")
    /\ UNCHANGED << followed, merchant_cats, geos, pay_methods, amounts,
                    raw_risk, risk_min, risk_max,
                    pre_auth_risk_score, fail_probs, is_failed, failure_codes,
                    retryable_mask, is_retryable, retry_recovered, rec_pos,
                    recovery_rows, is_recoverable, merchant_ids, df, written >>

(* 5. raw_risk, its min-max normalization, the noise draw, the clipped     *)
(* score and the failure probabilities.                                    *)
DrawNoise(D) ==
    /\ pc = "risk"
    /\ UNCHANGED << followed, merchant_cats, geos, pay_methods, amounts, raw_seconds,
                    is_failed, failure_codes, retryable_mask, is_retryable,
                    retry_recovered, rec_pos, recovery_rows, is_recoverable,
                    merchant_ids, df, written >>
    /\ raw_risk' = [i \in Rows |-> RawRiskValue(merchant_cats[i], geos[i],
                                                 pay_methods[i], amounts[i])]
    /\ \E e \in RestExtremes(D.rest) :
          /\ risk_min' = MinOver({ raw_risk'[i] : i \in Rows } \cup
                    { RawRiskValue(e[1].cat, e[1].geo, e[1].pm, e[1].amount) })
          /\ risk_max' = MaxOver({ raw_risk'[i] : i \in Rows } \cup
                    { RawRiskValue(e[2].cat, e[2].geo, e[2].pm, e[2].amount) })
    /\ \E base \in { [i \in Rows |-> risk_score_base(i)'] },
          noise \in [Rows -> D.noise] :
           pre_auth_risk_score' =
               [i \in Rows |-> ClipScore(FAdd(base[i], noise[i] * Scale))]
    /\ fail_probs' = [i \in Rows |-> FailProb(pre_auth_risk_score'[i])]
    /\ draws' = Append(draws, "noise")
    /\ pc' = StepAfter("risk")

(* is_failed = rng.random(size=N) < fail_probs, and the code column is     *)
(* started with the placeholder for the failed rows.                       *)
DrawOutcomes(D) ==
    /\ pc = "outcomes"
    /\ \E u \in [Rows -> { x \in D.outcome_u : 0 <= x /\ x < Scale }],
          failed \in [Rows -> BOOLEAN] :
             /\ \A i \in Rows : failed[i] \in FLtWithin(u[i] * Scale, fail_probs[i])
             /\ is_failed' = failed
             /\ failure_codes' =
                    [i \in Rows |-> IF failed[i] THEN StoreU30("pending_code", 12)
                                                 ELSE StoreU30("success", 7)]
    /\ draws' = Append(draws, "outcomes")
    /\ pc' = StepAfter("outcomes")
    /\ UNCHANGED << followed, merchant_cats, geos, pay_methods, amounts, raw_seconds,
                    raw_risk, risk_min, risk_max,
                    pre_auth_risk_score, fail_probs, retryable_mask, is_retryable,
                    retry_recovered, rec_pos, recovery_rows, is_recoverable,
                    merchant_ids, df, written >>

(* 6. retryable_mask = rng.random(size=n_failed) < 0.60 *)
DrawRetryableMask(D) ==
    /\ pc = "mask"
    /\ \E u \in [1..n_failed -> { x \in D.mask_u : 0 <= x /\ x < Scale }] :
           retryable_mask' = [k \in 1..n_failed |-> FLt(u[k], 6000)]
    /\ draws' = Append(draws, "retryable_class")
    /\ pc' = StepAfter("mask")
    /\ UNCHANGED << followed, merchant_cats, geos, pay_methods, amounts, raw_seconds,
                    raw_risk, risk_min, risk_max,
                    pre_auth_risk_score, fail_probs, is_failed, failure_codes,
                    is_retryable, retry_recovered, rec_pos, recovery_rows,
                    is_recoverable, merchant_ids, df, written >>

(* The code a failed row gets from the two drawn arrays *)
AssignedCode_Placeholder(k, retry_assigns, nonretry_assigns) ==
    [code |-> "pending_code", retryable |-> FALSE, len |-> 12]

AssignedCode(k, retry_assigns, nonretry_assigns) ==
    IF retryable_mask[k] THEN RETRY_CODES[retry_assigns[k]]
                         ELSE NON_RETRY_CODES[nonretry_assigns[k]]

(* is_retryable of a stored code: the table's flag, FALSE for "success" *)
RetryableOf(c) == IF c # "success" THEN CodeEntry(c).retryable ELSE FALSE

(* retry_assigns, nonretry_assigns (one draw of each per failed row), the  *)
(* assignment to the failed rows, and 7.: is_retryable from the code.      *)
AssignCodes(D) ==
    /\ pc = "codes"
    /\ \E ra \in [1..n_failed -> D.retry_idx \cap (1..Len(RETRY_CODES))],
          na \in [1..n_failed -> D.nonretry_idx \cap (1..Len(NON_RETRY_CODES))] :
         LET codes == [i \in Rows |->
                          IF is_failed[i]
                          THEN StoreU30(AssignedCode(PosOf(i), ra, na).code,
                                        AssignedCode(PosOf(i), ra, na).len)
                          ELSE failure_codes[i]]
         IN  /\ failure_codes' = codes
             /\ is_retryable' = [i \in Rows |-> RetryableOf(codes[i])]
    /\ retry_recovered' = [i \in Rows |-> FALSE]
    /\ draws' = draws \o << "code_assignment", "code_assignment" >>
    /\ pc' = StepAfter("codes")
    /\ UNCHANGED << followed, merchant_cats, geos, pay_methods, amounts, raw_seconds,
                    raw_risk, risk_min, risk_max,
                    pre_auth_risk_score, fail_probs, is_failed, retryable_mask,
                    rec_pos, recovery_rows, is_recoverable, merchant_ids, df, written >>

(* One iteration of: for idx in failed_idx[retryable_mask] *)
RecoveryStep(D) ==
    /\ pc = "recovery"
    /\ rec_pos < Len(MaskedRows)
    /\ LET idx == MaskedRows[rec_pos + 1]
           recovery_rate == RecoveryRate(failure_codes[idx])
       IN  /\ \E u \in { x \in D.recovery_u : 0 <= x /\ x < Scale } :
                  retry_recovered' = [retry_recovered EXCEPT ![idx] = FLt(u, recovery_rate)]
           /\ recovery_rows' = recovery_rows \cup { idx }
    /\ rec_pos' = rec_pos + 1
    /\ draws' = Append(draws, "recovery")
    /\ UNCHANGED << pc, followed, merchant_cats, geos, pay_methods, amounts, raw_seconds,
                    raw_risk, risk_min, risk_max,
                    pre_auth_risk_score, fail_probs, is_failed, failure_codes,
                    retryable_mask, is_retryable, is_recoverable, merchant_ids,
                    df, written >>

Recoverable_IgnoreRecovered(i) == is_retryable[i] /\ is_failed[i]

Recoverable(i) == is_retryable[i] /\ ~retry_recovered[i] /\ is_failed[i]

(* is_recoverable = is_retryable & ~retry_recovered & is_failed *)
ComputeRecoverable ==
    /\ pc = "recovery"
    /\ rec_pos = Len(MaskedRows)
    /\ is_recoverable' = [i \in Rows |-> Recoverable(i)]
    /\ pc' = StepAfter("recovery")
    /\ UNCHANGED << followed, merchant_cats, geos, pay_methods, amounts, raw_seconds,
                    raw_risk, risk_min, risk_max,
                    pre_auth_risk_score, fail_probs, is_failed, failure_codes,
                    retryable_mask, is_retryable, retry_recovered, rec_pos,
                    recovery_rows, merchant_ids, draws, df, written >>

(* 8. Merchant ids: rng.power for the popularity, rng.choice for the ids.  *)
(* Any of the n_merchants ids may come out; the popularity weights are not *)
(* kept.                                                                   *)
n_merchants == 5000

DrawMerchants(D) ==
    /\ pc = "merchants"
    /\ \E v \in [Rows -> D.merchants \cap (0..(n_merchants - 1))] : merchant_ids' = v
    /\ draws' = draws \o << "merchant", "merchant" >>
    /\ pc' = StepAfter("merchants")
    /\ UNCHANGED << followed, merchant_cats, geos, pay_methods, amounts, raw_seconds,
                    raw_risk, risk_min, risk_max,
                    pre_auth_risk_score, fail_probs, is_failed, failure_codes,
                    retryable_mask, is_retryable, retry_recovered, rec_pos,
                    recovery_rows, is_recoverable, df, written >>

(* np.where(is_failed, "failed", "success") *)
Status_Swapped(i) == IF is_failed[i] THEN "success" ELSE "failed"

Status(i) == IF is_failed[i] THEN "failed" ELSE "success"

(* the normalized raw_risk of the row is a whole number of 1/Fine, and so  *)
(* is the score (the noise is one)                                         *)
ScoreExact(i) == FDivExact(raw_risk[i] - risk_min, risk_max - risk_min)

(* 9. One row of the DataFrame; score4 is the score as rounded *)
Row(i, score4) ==
    [ transaction_id      |-> i - 1,
      timestamp           |-> DateOf(raw_seconds[i]),
      merchant_id         |-> merchant_ids[i],
      merchant_category   |-> merchant_cats[i],
      geography           |-> geos[i],
      currency            |-> Lookup(GEOGRAPHIES, geos[i]).currency,
      payment_method      |-> pay_methods[i],
      amount_usd          |-> amounts[i],
      pre_auth_risk_score |-> score4,
      status              |-> Status(i),
      failure_code        |-> failure_codes[i],
      is_retryable        |-> IF is_retryable[i] THEN 1 ELSE 0,
      retry_recovered     |-> IF retry_recovered[i] THEN 1 ELSE 0,
      is_recoverable      |-> IF is_recoverable[i] THEN 1 ELSE 0,
      hour_of_day         |-> HourOf(raw_seconds[i]),
      day_of_week         |-> DayOfWeekOf(raw_seconds[i]),
      is_weekend          |-> IF DayOfWeekOf(raw_seconds[i]) \in {5, 6} THEN 1 ELSE 0,
      month               |-> DateOf(raw_seconds[i])[2],
      year                |-> DateOf(raw_seconds[i])[1] ]

Assemble ==
    /\ pc = "assemble"
    /\ \E score4 \in [Rows -> UNION { Round4(pre_auth_risk_score[i], ScoreExact(i)) :
                                        i \in Rows }] :
          /\ \A i \in Rows : score4[i] \in Round4(pre_auth_risk_score[i], ScoreExact(i))
          /\ df' = [i \in Rows |-> Row(i, score4[i])]
    /\ pc' = StepAfter("assemble")
    /\ UNCHANGED << followed, merchant_cats, geos, pay_methods, amounts, raw_seconds,
                    raw_risk, risk_min, risk_max,
                    pre_auth_risk_score, fail_probs, is_failed, failure_codes,
                    retryable_mask, is_retryable, retry_recovered, rec_pos,
                    recovery_rows, is_recoverable, merchant_ids, draws, written >>

(* 10. df.to_csv(out_path) *)
Save ==
    /\ pc = "save"
    /\ written' = TRUE
    /\ pc' = StepAfter("save")
    /\ UNCHANGED << followed, merchant_cats, geos, pay_methods, amounts, raw_seconds,
                    raw_risk, risk_min, risk_max,
                    pre_auth_risk_score, fail_probs, is_failed, failure_codes,
                    retryable_mask, is_retryable, retry_recovered, rec_pos,
                    recovery_rows, is_recoverable, merchant_ids, draws, df >>

Run(D) ==
    \/ SampleCats(D)
    \/ SampleGeos(D)
    \/ SamplePayMethods(D)
    \/ DrawAmount(D)
    \/ RoundAmounts
    \/ DrawTimestamps(D)
    \/ DrawNoise(D)
    \/ DrawOutcomes(D)
    \/ DrawRetryableMask(D)
    \/ AssignCodes(D)
    \/ RecoveryStep(D)
    \/ ComputeRecoverable
    \/ DrawMerchants(D)
    \/ Assemble
    \/ Save

---------------------------------------------------------------------------
(* The values the generator's draws are taken from.  Every specification   *)
(* is the whole run from Init; they differ in which draws range widely.    *)

(* Failure attribution in full: every code of both pools, both outcomes of *)
(* every Bernoulli draw; two categories so that raw_risk varies.           *)
AttributionDraws ==
    [ cats         |-> { "Travel", "Healthcare" },
      geos         |-> { "BR" },
      pms          |-> { "BNPL" },
      amounts      |-> { 5000000 },
      seconds      |-> { 0 },
      noise        |-> { 0 },
      outcome_u    |-> { 0, 5000 },
      mask_u       |-> { 0, 6000 },
      retry_idx    |-> 1..Len(RETRY_CODES),
      nonretry_idx |-> 1..Len(NON_RETRY_CODES),
      recovery_u   |-> { 0, 5000 },
      merchants    |-> { 0 },
      rest         |-> { [cat |-> "Healthcare", geo |-> "BR", pm |-> "BNPL",
                          amount |-> 5000000],
                         [cat |-> "Travel", geo |-> "BR", pm |-> "BNPL",
                          amount |-> 5000000] } ]

(* The risk model in full: extreme multipliers of every dimension, an      *)
(* amount below the floor and one far above saturation, noise of one       *)
(* standard deviation either way.                                          *)
RiskDraws ==
    [ cats         |-> { "Travel", "Healthcare" },
      geos         |-> { "BR", "SG" },
      pms          |-> { "BNPL", "Digital Wallet" },
      amounts      |-> { 375, 5000004 },
      seconds      |-> { 0 },
      noise        |-> { 0 - 400, 0, 400 },
      outcome_u    |-> { 1000 },
      mask_u       |-> { 0 },
      retry_idx    |-> { 1 },
      nonretry_idx |-> { 1 },
      recovery_u   |-> { 0 },
      merchants    |-> { 4999 },
      rest         |-> { [cat |-> "Healthcare", geo |-> "SG", pm |-> "Digital Wallet",
                          amount |-> 1000],
                         [cat |-> "Healthcare", geo |-> "BR", pm |-> "BNPL",
                          amount |-> 1000],
                         [cat |-> "Travel", geo |-> "BR", pm |-> "BNPL",
                          amount |-> 5000000] } ]

(* Timestamps in full: the first second, the last second before the end,   *)
(* and seconds on the end date itself.  The amounts are a draw below the   *)
(* floor and one half way between two cents.                               *)
TimeDraws ==
    [ cats         |-> { "E-commerce", "Gaming" },
      geos         |-> { "US", "EU" },
      pms          |-> { "Credit Card" },
      amounts      |-> { 375, 1015 },
      seconds      |-> { 0, 86399, total_seconds - 1, total_seconds, total_seconds + 86399 },
      noise        |-> { 0 },
      outcome_u    |-> { 1000 },
      mask_u       |-> { 0, 6000 },
      retry_idx    |-> { 1 },
      nonretry_idx |-> { 1 },
      recovery_u   |-> { 0 },
      merchants    |-> { 0 },
      rest         |-> { [cat |-> "E-commerce", geo |-> "EU", pm |-> "Credit Card",
                          amount |-> 1000],
                         [cat |-> "Gaming", geo |-> "US", pm |-> "Credit Card",
                          amount |-> 1000] } ]

Next == Run(AttributionDraws)

NextRisk == Run(RiskDraws)

NextTime == Run(TimeDraws)

Spec == Init /\ [][Next]_vars

SpecRisk == Init /\ [][NextRisk]_vars

SpecTime == Init /\ [][NextTime]_vars

---------------------------------------------------------------------------
(* Properties *)

PosIn(s) == CHOOSE k \in DOMAIN Program : Program[k] = s

(* the run has completed statement group s *)
Past(s) == PosIn(pc) > PosIn(s)

Assembled == df # << >>

RetryableLabels ==
    { "insufficient_funds", "do_not_honor", "processing_error",
      "network_timeout", "velocity_exceeded" }

(* C1: in every row of the table, status is "failed" exactly when          *)
(* failure_code is not "success"; a successful row carries "success" and a *)
(* failed row carries a code of the FAILURE_CODES table (so neither        *)
(* "success" nor the placeholder "pending_code").                          *)
C1_StatusIffCode ==
    Assembled =>
        \A i \in DOMAIN df :
            /\ (df[i].status = "failed") <=> (df[i].failure_code # "success")
            /\ df[i].status \in { "failed", "success" }
            /\ df[i].status = "failed" =>
                   /\ df[i].failure_code \in CodeLabels
                   /\ df[i].failure_code # "pending_code"

C1_Witness ==
    /\ written
    /\ \E i, j \in DOMAIN df :
          /\ df[i].status = "failed" /\ df[i].failure_code = "currency_not_supported"
          /\ df[j].status = "success" /\ df[j].failure_code = "success"

(* C2: in every row, is_retryable is the fixed flag of the row's           *)
(* failure_code (set exactly for the five retryable codes, clear for       *)
(* "success"), and for a failed row it equals the retryable-class draw     *)
(* retryable_mask that selected the pool the code was taken from.          *)
C2_RetryableIsLookupAndMask ==
    Assembled =>
        \A i \in DOMAIN df :
            /\ (df[i].is_retryable = 1) <=> (df[i].failure_code \in RetryableLabels)
            /\ df[i].is_retryable \in { 0, 1 }
            /\ is_failed[i] => ((df[i].is_retryable = 1) <=> retryable_mask[PosOf(i)])

C2_Witness ==
    /\ written
    /\ \E i, j \in DOMAIN df :
          /\ is_failed[i] /\ retryable_mask[PosOf(i)] /\ df[i].is_retryable = 1
          /\ is_failed[j] /\ ~retryable_mask[PosOf(j)] /\ df[j].is_retryable = 0

(* C3: once the codes are assigned, in every row retry_recovered implies   *)
(* is_retryable and is_retryable implies failed; recovery draws are made   *)
(* only for rows of failed_idx[retryable_mask], and a row without a        *)
(* recovery draw keeps retry_recovered = FALSE.                            *)
C3_RecoveredImpliesRetryableImpliesFailed ==
    Past("codes") =>
        /\ \A i \in Rows :
              /\ retry_recovered[i] => is_retryable[i]
              /\ is_retryable[i] => is_failed[i]
              /\ i \notin recovery_rows => ~retry_recovered[i]
        /\ \A i \in recovery_rows : is_failed[i] /\ retryable_mask[PosOf(i)]
        /\ Past("recovery") =>
              recovery_rows = { i \in Rows : is_failed[i] /\ retryable_mask[PosOf(i)] }

C3_Witness ==
    /\ pc = "done"
    /\ \E i, j \in Rows :
          /\ retry_recovered[i] /\ i \in recovery_rows
          /\ is_failed[j] /\ j \notin recovery_rows /\ ~retry_recovered[j]

(* C4: in every row of the table, is_recoverable is set exactly when the   *)
(* row is failed, retryable and not recovered; so no row is both recovered *)
(* and recoverable, and no successful row is recoverable.                  *)
C4_RecoverableExactly ==
    Assembled =>
        \A i \in DOMAIN df :
            /\ (df[i].is_recoverable = 1) <=>
                   (df[i].status = "failed" /\ df[i].is_retryable = 1
                    /\ df[i].retry_recovered = 0)
            /\ ~(df[i].is_recoverable = 1 /\ df[i].retry_recovered = 1)
            /\ df[i].status = "success" => df[i].is_recoverable = 0

C4_Witness ==
    /\ written
    /\ \E i, j \in DOMAIN df :
          /\ df[i].is_recoverable = 1
          /\ df[j].status = "failed" /\ df[j].is_retryable = 1
          /\ df[j].retry_recovered = 1 /\ df[j].is_recoverable = 0

(* The batch holds two different raw_risk values, so the normalization     *)
(* does not divide by zero and every score is a number.                    *)
NotDegenerate ==
    Past("risk") =>
        /\ risk_min < risk_max
        /\ \A i \in Rows : pre_auth_risk_score[i] # NaN /\ fail_probs[i] # NaN

(* the row with the largest multipliers and a saturated amount risk *)
WorstCase(i) ==
    /\ Lookup(MERCHANT_CATEGORIES, merchant_cats[i]).fail_base
           = MaxOver({ MERCHANT_CATEGORIES[j].fail_base : j \in DOMAIN MERCHANT_CATEGORIES })
    /\ Lookup(GEOGRAPHIES, geos[i]).fail_mult
           = MaxOver({ GEOGRAPHIES[j].fail_mult : j \in DOMAIN GEOGRAPHIES })
    /\ Lookup(PAYMENT_METHODS, pay_methods[i]).fail_mult
           = MaxOver({ PAYMENT_METHODS[j].fail_mult : j \in DOMAIN PAYMENT_METHODS })
    /\ amounts[i] >= 1000000

AtTop(i) == WorstCase(i) /\ pre_auth_risk_score[i] = Fine

(* C6 (as claimed): a worst-case row with its score at the top of the      *)
(* scale gets a failure probability near the 0.90 ceiling (here: at least  *)
(* 0.85).                                                                  *)
C6_WorstCaseNearCeiling ==
    Past("risk") => \A i \in Rows : AtTop(i) => fail_probs[i] >= 85 * (Fine \div 100)

(* C6 (amended): a worst-case row with its score at the top of the scale   *)
(* gets the failure probability 0.43 = 0.40 * sigmoid(22) + 0.03, and no   *)
(* row of any batch gets more: the 0.90 ceiling of the clip is not reached.*)
C6_WorstCaseIsPoint43 ==
    Past("risk") =>
        \A i \in Rows :
            /\ AtTop(i) => fail_probs[i] = 43 * (Fine \div 100)
            /\ fail_probs[i] # NaN =>
                   /\ 3 * (Fine \div 100) <= fail_probs[i]
                   /\ fail_probs[i] <= 43 * (Fine \div 100)

C6_Witness ==
    /\ Past("risk")
    /\ \E i, j \in Rows :
          /\ AtTop(i) /\ fail_probs[i] = 43 * (Fine \div 100)
          /\ pre_auth_risk_score[j] = 0
          /\ fail_probs[j] <= 3 * (Fine \div 100) + ProbTolerance

(* C7: in every row of the table pre_auth_risk_score is a number in        *)
(* [0, 1], whatever the raw_risk values of the batch and the noise are.    *)
C7_ScoreInUnitInterval ==
    Assembled =>
        \A i \in DOMAIN df :
            /\ df[i].pre_auth_risk_score # NaN
            /\ 0 <= df[i].pre_auth_risk_score
            /\ df[i].pre_auth_risk_score <= Scale

C7_Witness ==
    /\ written
    /\ \E i, j \in DOMAIN df :
          /\ raw_risk[i] = risk_min /\ df[i].pre_auth_risk_score = 0
          /\ raw_risk[j] = risk_max /\ df[j].pre_auth_risk_score = Scale

DrawOrder ==
    << "dimension", "amounts", "timestamps", "noise", "outcomes",
       "retryable_class", "code_assignment", "recovery", "merchant" >>

Rank(step) == CHOOSE k \in DOMAIN DrawOrder : DrawOrder[k] = step

Count(step) == Cardinality({ k \in DOMAIN draws : draws[k] = step })

(* C9: the generator is consumed in the order dimension sampling, amounts, *)
(* timestamps, noise, outcomes, retryable class, code assignment,          *)
(* recovery, merchant assignment: no call of a step comes before a call of *)
(* an earlier step of this list; a finished run has made the three         *)
(* dimension calls, one amount call per row, one call each for timestamps, *)
(* noise, outcomes and the retryable class, two for the codes, one         *)
(* recovery call per retryable failed row and two for the merchants.       *)
C9_DrawOrder ==
    /\ \A a, b \in DOMAIN draws : a < b => Rank(draws[a]) <= Rank(draws[b])
    /\ pc = "done" =>
          /\ Count("dimension") = 3
          /\ Count("amounts") = followed
          /\ Count("timestamps") = 1
          /\ Count("noise") = 1
          /\ Count("outcomes") = 1
          /\ Count("retryable_class") = 1
          /\ Count("code_assignment") = 2
          /\ Count("recovery") = Cardinality(recovery_rows)
          /\ Count("merchant") = 2

C9_Witness ==
    /\ pc = "done"
    /\ followed = MaxRows
    /\ Count("recovery") >= 2
    /\ draws[1] = "dimension"
    /\ draws[Len(draws)] = "merchant"

InWindow(date) ==
    /\ date[1] \in { 2023, 2024 }
    /\ date[1] = 2023 => date[2] >= 7
    /\ date[2] \in 1..12
    /\ date[3] \in 1..31

(* a draw of the timestamps that puts some row on 2024-12-31 *)
DrawOnLastDay ==
    /\ DrawTimestamps(TimeDraws)
    /\ \E i \in Rows : DateOf(raw_seconds'[i]) = << 2024, 12, 31 >>

(* C10 (as claimed): every timestamp is start_ts plus the drawn offset and *)
(* lies in 2023-07-01 .. 2024-12-31, and instants on 2024-12-31 are among  *)
(* the values that can be drawn.                                           *)
C10_WindowInclusive ==
    /\ Past("timestamps") => \A i \in Rows : InWindow(DateOf(raw_seconds[i]))
    /\ pc = "timestamps" => ENABLED DrawOnLastDay

(* The code: every timestamp lies in 2023-07-01 00:00:00 .. 2024-12-30     *)
(* 23:59:59, the last second being reachable.                              *)
C10_WindowHalfOpen ==
    Past("timestamps") =>
        \A i \in Rows :
            /\ InWindow(DateOf(raw_seconds[i]))
            /\ DayOf(raw_seconds[i]) < end_ts
            /\ DateOf(raw_seconds[i]) # << 2024, 12, 31 >>

C10_LastSecondReached ==
    ~(Past("timestamps") /\ \E i \in Rows :
          /\ DateOf(raw_seconds[i]) = << 2024, 12, 30 >>
          /\ HourOf(raw_seconds[i]) = 23)

=============================================================================
